---- MODULE Spec2Model ----
(***************************************************************************)
(* A model of studip_sync/studip_sync.py: the Extractor working on the     *)
(* scratch tree, the Downloader session, the RsyncWrapper merge and the    *)
(* StudipSync run that drives them.                                        *)
(*                                                                         *)
(* A filesystem tree is a set of nodes [p, k, c]: p the path (a sequence   *)
(* of names) below the directory the tree stands for, k "dir" or "file",   *)
(* c the content of a file (<<member path, version>>: the archive member   *)
(* it was unpacked from) and <<>> for a directory.  The root <<>> of the   *)
(* scratch tree is extract_dir, which __init__ creates.                    *)
(***************************************************************************)
EXTENDS Naturals, Sequences, FiniteSets, TLC

\* ------------------------------------------------------------------ bounds

\* Deepest member path of an archive.
MaxDepth == 2

\* Most members of an archive.
MaxMembers == 2

\* ------------------------------------------------------------------- names

\* Names of directories in archives: a plain one and one with glob magic.
DirNames == {"D", "[E]"}

\* Names of regular files in archives: a plain one and a hidden one.
FileNames == {"a", ".h"}

Names == DirNames \cup FileNames

\* glob.has_magic: the name contains one of * ? [
HasMagic(name) == name = "[E]"

\* glob._ishidden: the name starts with a dot
IsHidden(name) == name = ".h"

Last(p) == p[Len(p)]

IsPrefix(a, b) == Len(a) <= Len(b) /\ SubSeq(b, 1, Len(a)) = a

\* ------------------------------------------------------------------- trees

NoContent == <<>>

DirNode(p) == [p |-> p, k |-> "dir", c |-> NoContent]

FileNode(p, c) == [p |-> p, k |-> "file", c |-> c]

\* os.path.exists
Exists(t, p) == p = <<>> \/ \E n \in t : n.p = p

\* os.path.isdir
IsDir(t, p) == p = <<>> \/ \E n \in t : n.p = p /\ n.k = "dir"

\* os.listdir: the names directly inside directory d
ListDir(t, d) == {n.p[Len(d) + 1] : n \in {m \in t : Len(m.p) = Len(d) + 1 /\ IsPrefix(d, m.p)}}

\* the nodes at or below path d
Under(t, d) == {n \in t : IsPrefix(d, n.p)}

\* the nodes strictly below path d
Below(t, d) == {n \in t : IsPrefix(d, n.p) /\ n.p # d}

\* os.makedirs(p, exist_ok=True) below the root
MakeDirs(t, p) == t \cup {DirNode(SubSeq(p, 1, k)) : k \in {j \in 1..Len(p) : ~Exists(t, SubSeq(p, 1, j))}}

\* open(p, "wb") and write: the file at p is created or replaced
WriteFile(t, p, c) == {n \in t : n.p # p} \cup {FileNode(p, c)}

\* ---------------------------------------------------------------- archives

RECURSIVE DirPaths(_)
DirPaths(k) == IF k = 0 THEN {<<>>} ELSE {Append(d, n) : d \in DirPaths(k - 1), n \in DirNames}

RECURSIVE MemberPaths(_)
MemberPaths(k) == IF k = 0 THEN {} ELSE MemberPaths(k - 1) \cup {Append(d, n) : d \in DirPaths(k - 1), n \in Names}

RECURSIVE KSubsets(_, _)
KSubsets(S, k) == IF k = 0 THEN {{}} ELSE KSubsets(S, k - 1) \cup {T \cup {x} : T \in KSubsets(S, k - 1), x \in S}

\* A member is a path; its last name says whether it is a file or a
\* directory entry.
MemberKind(m) == IF Last(m) \in FileNames THEN "file" ELSE "dir"

\* What the downloaded file can be: a readable archive ("none"), a file that
\* is no zip archive at all ("header": ZipFile() raises BadZipFile), or an
\* archive with a member whose data is damaged ("crc": extractall raises
\* BadZipFile at that member).
Corruptions == {"none", "header", "crc"}

Archive(ms, corrupt, ver) == [members |-> ms, corrupt |-> corrupt, ver |-> ver]

ArchivesOf(depth, count, vers) == {Archive(ms, cr, v) : ms \in KSubsets(MemberPaths(depth), count), cr \in Corruptions, v \in vers} \ {Archive({}, "crc", v) : v \in vers}

\* ZipFile._extract_member: create the upper directories, then the
\* directory or the file
ExtractMember(t, target, m, ver) ==
  IF MemberKind(m) = "dir"
  THEN MakeDirs(t, target \o m)
  ELSE WriteFile(MakeDirs(t, target \o SubSeq(m, 1, Len(m) - 1)), target \o m, <<m, ver>>)

RECURSIVE ExtractAll(_, _, _, _)
\* ZipFile.extractall(target) over the members ms
ExtractAll(t, target, ms, ver) ==
  IF ms = {} THEN t
  ELSE LET m == CHOOSE x \in ms : TRUE
       IN ExtractAll(ExtractMember(t, target, m, ver), target, ms \ {m}, ver)

\* ----------------------------------------------------------------- Extractor

Result(exc, tree) == [exc |-> exc, tree |-> tree]

\* glob.iglob(os.path.join(w, "*")): nothing when w is no directory or a
\* component of the pattern has glob magic (it then stands for other names,
\* none of which exists here); hidden names never match "*"
Glob(t, w) ==
  IF ~IsDir(t, w) \/ \E i \in 1..Len(w) : HasMagic(w[i]) THEN {}
  ELSE {c \in ListDir(t, w) : ~IsHidden(c)}

\* shutil.move of the entries w/c, c in cs, into directory s
MoveAll(t, w, s, cs) ==
  LET moved == {n \in t : \E c \in cs : IsPrefix(w \o <<c>>, n.p)}
  IN (t \ moved) \cup {[n EXCEPT !.p = s \o SubSeq(n.p, Len(w) + 1, Len(n.p))] : n \in moved}

\* os.rmdir
Rmdir(t, w) ==
  IF ~IsDir(t, w) \/ ListDir(t, w) # {} THEN Result("OSError", t)
  ELSE Result("none", {n \in t : n.p # w})

\* Extractor.remove_intermediary_dir: the results it can end with.  A move
\* whose target name exists raises shutil.Error (an OSError); which of the
\* other entries were moved before it depends on the directory's order.
remove_intermediary_dir(t, s) ==
  IF ~IsDir(t, s) THEN {Result("OSError", t)}
  ELSE LET subdirs == ListDir(t, s)
       IN IF Cardinality(subdirs) # 1 THEN {Result("none", t)}
          ELSE LET d == CHOOSE x \in subdirs : TRUE
                   w == s \o <<d>>
                   matches == Glob(t, w)
                   clash == {c \in matches : Exists(t, s \o <<c>>)}
               IN IF clash # {}
                  THEN {Result("OSError", MoveAll(t, w, s, cs)) : cs \in SUBSET (matches \ clash)}
                  ELSE {Rmdir(MoveAll(t, w, s, matches), w)}

\* Extractor.remove_empty_dirs: os.walk runs top-down, so a directory is
\* looked at before its subdirectories are, and is removed only when it is
\* empty at that moment
remove_empty_dirs(t, s) ==
  {n \in t : ~(n.k = "dir" /\ IsPrefix(s, n.p) /\ ListDir(t, n.p) = {})}

\* the cleanup part of Extractor.extract (lines 109-111)
ExtractCleanup(t, s) ==
  {IF r.exc # "none" THEN r ELSE Result("none", remove_empty_dirs(r.tree, s)) : r \in remove_intermediary_dir(t, s)}

\* Extractor.extract(archive, save_as): the results it can end with.
\* BadZipFile becomes ExtractionError; any other exception escapes as it is.
extract(t, s, ar) ==
  CASE ar.corrupt = "header" -> {Result("ExtractionError", t)}
    [] ar.corrupt = "crc" -> {Result("ExtractionError", ExtractAll(t, s, ms, ar.ver)) : ms \in (SUBSET ar.members) \ {{}}}
    [] OTHER -> ExtractCleanup(ExtractAll(t, s, ar.members, ar.ver), s)

\* ------------------------------------------------------------ RsyncWrapper

\* A node of the destination tree is [p, b, k, c]: b = 0 for the entry named
\* p itself, b = t for its backup p + "_<t>.old" written by a run whose
\* timestamp is t.
DestNode(p, b, k, c) == [p |-> p, b |-> b, k |-> k, c |-> c]

\* rsync without --checksum and with --ignore-times: every source file is
\* transferred
DiffersAlways(n, dst) == TRUE

\* --checksum: a source file is transferred unless the destination holds a
\* file of the same name and content
Differs(n, dst) == ~\E m \in dst : m.p = n.p /\ m.b = 0 /\ m.k = "file" /\ m.c = n.c

\* --backup --suffix: the destination files that a transfer of the source
\* files ns replaces, renamed with the suffix
Backups(ns, dst, sfx) == {DestNode(m.p, sfx, "file", m.c) : m \in {x \in dst : x.b = 0 /\ x.k = "file" /\ \E n \in ns : n.p = x.p}}

\* rsync called with --delete as well: a destination file with no source
\* file of its name is taken away, kept only as a backup
RsyncDelete(done, dst, sfx) ==
  LET extraneous == {m \in dst : m.b = 0 /\ m.k = "file" /\ ~\E n \in done : n.p = m.p}
      replaced == {m \in dst : m.b = 0 /\ \E n \in done : n.p = m.p}
  IN (dst \ (extraneous \cup replaced))
       \cup {DestNode(m.p, sfx, "file", m.c) : m \in extraneous}
       \cup {DestNode(n.p, 0, n.k, n.c) : n \in done}

\* rsync --recursive --checksum --backup --suffix=sfx src/ dst, having
\* transferred the source nodes done (all of them when it exits with 0)
Rsync(done, dst, sfx) ==
  LET changed == {n \in done : n.k = "file" /\ Differs(n, dst)}
      backups == Backups(changed, dst, sfx)
      gone == {m \in dst : \/ m.b = 0 /\ \E n \in changed : n.p = m.p
                           \/ \E x \in backups : x.p = m.p /\ x.b = m.b}
  IN (dst \ gone) \cup backups
       \cup {DestNode(n.p, 0, "file", n.c) : n \in changed}
       \cup {DestNode(n.p, 0, "dir", NoContent) : n \in {x \in done : x.k = "dir"}}

\* What rsync has transferred when it exits with status code: everything
\* with 0, else the directories and only some of the files.
Transferred(src, code) ==
  IF code = 0 THEN {src}
  ELSE LET files == {n \in src : n.k = "file"}
       IN {(src \ files) \cup fs : fs \in {x \in SUBSET files : x # files \/ files = {}}}

\* the plain (not backup) files of a destination tree, as <<path, content>>
PlainFiles(dst) == {<<m.p, m.c>> : m \in {x \in dst : x.b = 0 /\ x.k = "file"}}

\* --------------------------------------------------------------- variables

\* Extractor.extract on its own: the archive, the target, the scratch tree,
\* the tree as unpacked, the position and the exception raised.
VARIABLES xArchive, xSaveAs, xTree, xUnpacked, xPc, xExc

\* The run: its number, position, exception in flight and exit status; the
\* configured courses and the index of the current one.
VARIABLES run, pc, exc, status, courses, idx

\* The scratch workspace (workdir, its zips and extracted directories), the
\* browser session and the per-course outcomes.
VARIABLES workdir, zips, staging, driver, releases, loginRes, outcome

\* The merge: the run's backup suffix, the merges invoked, rsync's exit
\* status, the destination tree.
VARIABLES suffix, merges, rc, dest

\* History: the destination when the run started, every <<path, content>>
\* the destination ever held, the tree and exit status of the previous
\* run's merge, the requests each course's download has issued, and the
\* logins the run has tried.
VARIABLES dest0, everAt, prevTree, prevRc, requests, logins, fetched, events

\* The start of the process, config.py: the command line, the JSON file as
\* loaded, the cached credentials, the position, the exception in flight,
\* what was printed and the exit status.
VARIABLES cArgs, cConfig, cUsername, cPassword, cPc, cExc, cOut, cStatus

extVars == <<xArchive, xSaveAs, xTree, xUnpacked, xPc, xExc>>

runVars == <<run, pc, exc, status, courses, idx, workdir, zips, staging, driver, releases, loginRes, outcome, suffix, merges, rc, dest, dest0, everAt, prevTree, prevRc, requests, logins, fetched, events>>

cfgVars == <<cArgs, cConfig, cUsername, cPassword, cPc, cExc, cOut, cStatus>>

vars == <<extVars, runVars, cfgVars>>

\* ----------------------------------------------------------------- inputs

\* Most runs of the program in a behaviour.
MaxRuns == 2

\* The readings of the wall clock, cut to whole seconds, that a run can get.
MaxStamp == 2

Stamps == 1..MaxStamp

\* Versions of a course's remote content.
Versions == {1, 2}

Course(id, s) == [course_id |-> id, save_as |-> s]

\* config.courses: one course, or two with distinct ids and targets
Configs == {<<Course("c1", <<"S1">>)>>, <<Course("c1", <<"S1">>), Course("c2", <<"S2">>)>>}

\* What the portal can send for a course: its files wrapped in one folder
\* (in either version), a body that is no archive, an archive damaged at a
\* member, one regular file at the top, a wrapper holding a hidden file.
RemoteArchives ==
  {Archive({<<"D", "a">>}, "none", v) : v \in Versions}
    \cup {Archive({<<"D", "a">>}, "header", 1), Archive({<<"D", "a">>}, "crc", 1),
          Archive({<<"a">>}, "none", 1), Archive({<<"D", ".h">>}, "none", 1)}

\* a download cut off while streaming: not an archive
Truncated == Archive({}, "header", 1)

\* a file the user put or edited in the destination
UserContent == <<<<"user">>, 0>>

\* The destination before the first run: empty, or holding a file the user
\* has at the place of the first course's file.
InitialDests ==
  {{}, {DestNode(<<"S1">>, 0, "dir", NoContent), DestNode(<<"S1", "a">>, 0, "file", UserContent)}}

LoginResults == {"ok", "timeout", "no_element", "no_browser"}

DownloadResults == {"ok", "no_folder", "not_ok", "transport"}

Terminal == {"staged", "download_failed", "extraction_failed"}

\* ------------------------------------------------------- config.py: values

\* Python's None, and a key that the JSON file does not have
None == "None"

Absent == "Absent"

\* what "not x" is true of, for the strings and None of the configuration
Falsy(x) == x \in {None, ""}

\* os.path.expanduser: a leading "~" becomes the home directory
expanduser(p) ==
  IF Len(p) > 0 /\ Head(p) = "~" THEN <<"home">> \o Tail(p) ELSE p

\* A path as the string the properties return: empty for no component.
PathString(p) == IF p = <<>> THEN "" ELSE "path"

\* dict.get(key, default)
Get(d, key, default) == IF d[key] = Absent THEN default ELSE d[key]

\* ARGS: --destination and --media, not given, given empty, given
ArgValues == {None, "", "~/arg"}

Arguments == [destination : ArgValues, media : ArgValues]

\* no JSON file: self.config is None
NoConfig ==
  [loaded |-> FALSE, files_destination |-> Absent, media_destination |-> Absent,
   login |-> Absent, password |-> Absent]

\* the JSON file as loaded: a key is not there, is empty, or has a value
ConfigFiles ==
  {NoConfig} \cup
  [loaded : {TRUE}, files_destination : {Absent, "", "~/files"},
   media_destination : {Absent, "~/media"},
   login : {Absent, "", "user"}, password : {Absent, "secret"}]

\* what input() and getpass() give: a line, an empty line, or no line at
\* all (end of input, EOFError)
EOF == "EOF"

Typed == {"typed", "", EOF}

\* a path string as its components, for expanduser
Components(str) ==
  CASE str = "" -> <<>>
    [] str = "~/arg" -> <<"~", "arg">>
    [] str = "~/files" -> <<"~", "files">>
    [] str = "~/media" -> <<"~", "media">>

\* Config.files_destination, lines 106-116
files_destination(args, config) ==
  IF args.destination # None
  THEN PathString(expanduser(Components(args.destination)))
  ELSE IF ~config.loaded
  THEN None
  ELSE PathString(expanduser(Components(Get(config, "files_destination", ""))))

\* Config.media_destination, lines 118-128
media_destination(args, config) ==
  IF args.media # None
  THEN PathString(expanduser(Components(args.media)))
  ELSE IF ~config.loaded
  THEN None
  ELSE PathString(expanduser(Components(Get(config, "media_destination", ""))))

\* Config.user_property, lines 70-79
user_property(config, prop) ==
  IF ~config.loaded THEN None ELSE Get(config, prop, None)

\* Config.username and Config.password, lines 81-96: the cached value, or
\* the value of the file, or what the prompt gives
Credential(cached, config, prop, typed) ==
  IF ~Falsy(cached) THEN cached
  ELSE IF ~Falsy(user_property(config, prop)) THEN user_property(config, prop)
  ELSE typed

\* Config._check with only the first of the two destinations looked at
CheckFilesOnly(args, config, user, pass) ==
  IF Falsy(files_destination(args, config))
  THEN "ConfigError: Both target directories are missing"
  ELSE IF user = EOF THEN "EOFError"
  ELSE IF Falsy(user) THEN "ConfigError: Username is missing"
  ELSE IF pass = EOF THEN "EOFError"
  ELSE IF Falsy(pass) THEN "ConfigError: Password is missing"
  ELSE "none"

\* Config._check, lines 25-34, given what self.username and self.password
\* evaluate to: the exception it ends with
Check(args, config, user, pass) ==
  IF Falsy(files_destination(args, config)) /\ Falsy(media_destination(args, config))
  THEN "ConfigError: Both target directories are missing"
  ELSE IF user = EOF THEN "EOFError"
  ELSE IF Falsy(user) THEN "ConfigError: Username is missing"
  ELSE IF pass = EOF THEN "EOFError"
  ELSE IF Falsy(pass) THEN "ConfigError: Password is missing"
  ELSE "none"

IsConfigError(e) == e \in {"ConfigError: Both target directories are missing",
                           "ConfigError: Username is missing",
                           "ConfigError: Password is missing"}

\* the configuration variables in a behaviour that does not start a process
CfgOff ==
  /\ cArgs = [destination |-> None, media |-> None]
  /\ cConfig = NoConfig
  /\ cUsername = None
  /\ cPassword = None
  /\ cPc = "off"
  /\ cExc = "none"
  /\ cOut = <<>>
  /\ cStatus = "none"

\* -------------------------------------------------------------- the run

\* _login without the exit(1) of line 157: a timeout lets __init__ return
LoginExcNoExit(res) ==
  CASE res = "no_browser" -> "WebDriverException"
    [] res = "no_element" -> "NoSuchElementException"
    [] OTHER -> "none"

\* Downloader.__init__ and _login: the exception that leaves them.  The
\* browser cannot be started; a form element is not found; the footer is not
\* seen within the timeout (exit(1)).
LoginExc(res) ==
  CASE res = "no_browser" -> "WebDriverException"
    [] res = "no_element" -> "NoSuchElementException"
    [] res = "timeout" -> "SystemExit"
    [] OTHER -> "none"

\* the driver after Downloader.__init__: _login quits it only in its
\* except branch (line 156)
DriverAfterLogin(res) ==
  CASE res = "no_browser" -> "none"
    [] res = "timeout" -> "released"
    [] OTHER -> "open"

\* the events of a run in the order they happen, an event that repeats at
\* once written one time
Log(ev, e) == IF Len(ev) > 0 /\ ev[Len(ev)] = e THEN ev ELSE Append(ev, e)

\* Downloader.__init__: the browser is started (line 126) unless that fails;
\* on a timeout _login quits it again (line 156)
LoginEvents(ev, res) ==
  CASE res = "no_browser" -> ev
    [] res = "timeout" -> Log(Log(ev, "session_opened"), "session_closed")
    [] OTHER -> Log(ev, "session_opened")

\* sync, lines 52 and 57: the exceptions the course loop recovers from
Caught(e) == e \in {"DownloadError", "ExtractionError"}

\* Downloader.download: the exception it ends with
DownloadExc(res) ==
  CASE res = "no_folder" -> "DownloadError"
    [] res = "not_ok" -> "DownloadError"
    [] res = "transport" -> "ConnectionError"
    [] OTHER -> "none"

\* Downloader.download with the bulk request sent before the folder id is
\* looked for
DownloadRequestsBulkFirst(res) == {"files", "bulk"}

\* Downloader.download: the requests it has issued when it ends
DownloadRequests(res) == IF res = "no_folder" THEN {"files"} ELSE {"files", "bulk"}

\* Downloader.download: the file zips/<course_id> when it ends
DownloadFile(z, id, res, ar) ==
  CASE res = "ok" -> [z EXCEPT ![id] = {ar}]
    [] res = "transport" -> [z EXCEPT ![id] = {Truncated}]
    [] OTHER -> z

\* Downloader.download: how the call ended and the body it stored
Fetched(res, ar) == <<res, IF res = "ok" THEN ar ELSE Truncated>>

\* subprocess.check_call in the place of subprocess.call: a non-zero exit
\* status of rsync is raised
MergeExcChecked(code) == IF code = 0 THEN "none" ELSE "CalledProcessError"

\* subprocess.call, line 81: the exit status of rsync is its return value,
\* which sync drops; no exception comes of it
MergeExc(code) == "none"

Ids == {"c1", "c2"}

NoZips == [id \in Ids |-> {}]

RunInit ==
  /\ run = 0
  /\ pc = "idle"
  /\ exc = "none"
  /\ status = "none"
  /\ idx = 1
  /\ workdir = "none"
  /\ zips = NoZips
  /\ staging = {}
  /\ driver = "none"
  /\ releases = 0
  /\ loginRes = "none"
  /\ suffix = 0
  /\ merges = 0
  /\ rc = 0
  /\ prevTree = {}
  /\ prevRc = 1
  /\ dest0 = dest
  /\ everAt = PlainFiles(dest)
  /\ outcome = [i \in 1..Len(courses) |-> "pending"]
  /\ requests = [i \in 1..Len(courses) |-> {}]
  /\ fetched = [i \in 1..Len(courses) |-> {}]
  /\ events = <<>>
  /\ logins = 0

Init ==
  /\ courses \in Configs
  /\ dest \in InitialDests
  /\ RunInit
  /\ xArchive = Archive({}, "none", 1)
  /\ xSaveAs = <<"S1">>
  /\ xTree = {}
  /\ xUnpacked = {}
  /\ xPc = "idle"
  /\ xExc = "none"
  /\ CfgOff

\* main, which is not among the sources: with StudipSync() as s: s.sync().
\* An exception that leaves the constructor ends the process before the with
\* block is entered; otherwise sync runs inside it and __exit__ follows.
MainAfterInit(made) == IF made THEN "sync" ELSE "ended"

\* the course loop with the merge moved into the with block of line 46
NextCourseMergeInside == IF idx < Len(courses) THEN "download" ELSE "merge"

\* the step of the course loop after course idx is done
NextCourse == IF idx < Len(courses) THEN "download" ELSE "close"

\* main and StudipSync.__init__: the workspace is made, then the
\* destination; when the destination cannot be made the exception leaves
\* __init__ and the with block of main is never entered
Construct ==
  /\ pc = "idle" \/ (pc = "ended" /\ run < MaxRuns)
  /\ run' = run + 1
  /\ workdir' = "exists"
  /\ zips' = NoZips
  /\ staging' = {}
  /\ idx' = 1
  /\ driver' = "none"
  /\ releases' = 0
  /\ loginRes' = "none"
  /\ suffix' = 0
  /\ merges' = 0
  /\ rc' = 0
  /\ dest0' = dest
  /\ outcome' = [i \in 1..Len(courses) |-> "pending"]
  /\ requests' = [i \in 1..Len(courses) |-> {}]
  /\ fetched' = [i \in 1..Len(courses) |-> {}]
  /\ events' = <<"workspace_created">>
  /\ logins' = 0
  /\ \E made \in BOOLEAN :
       /\ pc' = MainAfterInit(made)
       /\ exc' = IF made THEN "none" ELSE "OSError"
       /\ status' = IF made THEN "none" ELSE "nonzero"
  /\ UNCHANGED <<courses, dest, everAt, prevTree, prevRc>>
  /\ UNCHANGED <<extVars, cfgVars>>

\* sync, lines 42-45: RsyncWrapper() fixes the suffix from the clock
SyncStart ==
  /\ pc = "sync"
  /\ UNCHANGED events
  /\ \E t \in Stamps : suffix' = t
  /\ pc' = "login"
  /\ UNCHANGED <<run, exc, status, courses, idx, workdir, zips, staging, driver, releases, loginRes, outcome, merges, rc, dest, dest0, everAt, prevTree, prevRc, requests, logins, fetched>>
  /\ UNCHANGED <<extVars, cfgVars>>

\* sync, line 46: Downloader(...) starts the browser and logs in
Login ==
  /\ pc = "login"
  /\ \E res \in LoginResults :
       /\ loginRes' = res
       /\ logins' = logins + 1
       /\ exc' = LoginExc(res)
       /\ driver' = DriverAfterLogin(res)
       /\ releases' = IF DriverAfterLogin(res) = "released" THEN releases + 1 ELSE releases
       /\ pc' = IF LoginExc(res) = "none" THEN "download" ELSE "exit"
       /\ events' = LoginEvents(events, res)
  /\ UNCHANGED <<run, status, courses, idx, workdir, zips, staging, outcome, suffix, merges, rc, dest, dest0, everAt, prevTree, prevRc, requests, fetched>>
  /\ UNCHANGED <<extVars, cfgVars>>

\* sync, line 50: downloader.download(course_id, sync_only)
Download ==
  /\ pc = "download"
  /\ events' = Log(events, "course_loop")
  /\ \E res \in DownloadResults, ar \in RemoteArchives :
       LET e == DownloadExc(res)
       IN /\ zips' = DownloadFile(zips, courses[idx].course_id, res, ar)
          /\ requests' = [requests EXCEPT ![idx] = DownloadRequests(res)]
          /\ fetched' = [fetched EXCEPT ![idx] = {Fetched(res, ar)}]
          /\ IF e = "none"
             THEN /\ outcome' = [outcome EXCEPT ![idx] = "downloaded"]
                  /\ pc' = "extract"
                  /\ UNCHANGED <<idx, exc>>
             ELSE IF Caught(e)
             THEN /\ outcome' = [outcome EXCEPT ![idx] = "download_failed"]
                  /\ pc' = NextCourse
                  /\ idx' = IF idx < Len(courses) THEN idx + 1 ELSE idx
                  /\ UNCHANGED exc
             ELSE /\ exc' = e
                  /\ pc' = "close"
                  /\ UNCHANGED <<idx, outcome>>
  /\ UNCHANGED <<run, status, courses, workdir, staging, driver, releases, loginRes, suffix, merges, rc, dest, dest0, everAt, prevTree, prevRc, logins>>
  /\ UNCHANGED <<extVars, cfgVars>>

\* sync, line 51: extractor.extract(zip_location, save_as)
Extract ==
  /\ pc = "extract"
  /\ events' = Log(events, "course_loop")
  /\ \E ar \in zips[courses[idx].course_id] :
     \E r \in extract(staging, courses[idx].save_as, ar) :
       /\ staging' = r.tree
       /\ IF r.exc = "none"
          THEN /\ outcome' = [outcome EXCEPT ![idx] = "staged"]
               /\ pc' = NextCourse
               /\ idx' = IF idx < Len(courses) THEN idx + 1 ELSE idx
               /\ UNCHANGED exc
          ELSE IF Caught(r.exc)
          THEN /\ outcome' = [outcome EXCEPT ![idx] = "extraction_failed"]
               /\ pc' = NextCourse
               /\ idx' = IF idx < Len(courses) THEN idx + 1 ELSE idx
               /\ UNCHANGED exc
          ELSE /\ exc' = r.exc
               /\ pc' = "close"
               /\ UNCHANGED <<idx, outcome>>
  /\ UNCHANGED <<run, status, courses, workdir, zips, driver, releases, loginRes, suffix, merges, rc, dest, dest0, everAt, prevTree, prevRc, requests, logins, fetched>>
  /\ UNCHANGED <<extVars, cfgVars>>

\* Downloader.__exit__: the with block of line 46 is left, after the loop
\* or by an exception
CloseSession ==
  /\ pc = "close"
  /\ events' = Log(events, "session_closed")
  /\ driver' = "released"
  /\ releases' = releases + 1
  /\ pc' = IF exc = "none" THEN "merge" ELSE "exit"
  /\ UNCHANGED <<run, exc, status, courses, idx, workdir, zips, staging, loginRes, outcome, suffix, merges, rc, dest, dest0, everAt, prevTree, prevRc, requests, logins, fetched>>
  /\ UNCHANGED <<extVars, cfgVars>>

\* sync, lines 60-61: rsync.sync(extract_dir + "/", destination_dir); the
\* exit status of rsync is dropped.  With a non-zero status only part of the
\* files of the staging tree was transferred.
Merge ==
  /\ pc = "merge"
  /\ events' = Log(events, "merge")
  /\ \E code \in {0, 1} :
     \E done \in Transferred(staging, code) :
       /\ rc' = code
       /\ exc' = MergeExc(code)
       /\ dest' = Rsync(done, dest, suffix)
  /\ merges' = merges + 1
  /\ everAt' = everAt \cup PlainFiles(dest')
  /\ pc' = "exit"
  /\ UNCHANGED <<run, status, courses, idx, workdir, zips, staging, driver, releases, loginRes, outcome, suffix, dest0, prevTree, prevRc, requests, logins, fetched>>
  /\ UNCHANGED <<extVars, cfgVars>>

\* StudipSync.__exit__ and cleanup, then the end of main: the workspace is
\* removed, an exception in flight ends the process with a non-zero status
Exit ==
  /\ pc = "exit"
  /\ events' = Log(events, "workspace_removed")
  /\ workdir' = "removed"
  /\ zips' = NoZips
  /\ staging' = {}
  /\ status' = IF exc = "none" THEN "zero" ELSE "nonzero"
  /\ prevTree' = IF merges > 0 THEN staging ELSE prevTree
  /\ prevRc' = IF merges > 0 THEN rc ELSE prevRc
  /\ pc' = "ended"
  /\ UNCHANGED <<run, exc, courses, idx, driver, releases, loginRes, outcome, suffix, merges, rc, dest, dest0, everAt, requests, logins, fetched>>
  /\ UNCHANGED <<extVars, cfgVars>>

Next == Construct \/ SyncStart \/ Login \/ Download \/ Extract \/ CloseSession \/ Merge \/ Exit

Spec == Init /\ [][Next]_vars

\* ------------------------------------------- Extractor.extract, step by step

XInit ==
  /\ xArchive \in ArchivesOf(MaxDepth, MaxMembers, {1})
  /\ xSaveAs \in {<<"S1">>}
  /\ xTree = {}
  /\ xUnpacked = {}
  /\ xPc = "open"
  /\ xExc = "none"
  /\ courses = <<Course("c1", <<"S1">>)>>
  /\ dest = {}
  /\ RunInit
  /\ CfgOff

\* line 106: ZipFile(archive_filename)
XOpen ==
  /\ xPc = "open"
  /\ IF xArchive.corrupt = "header"
     THEN xPc' = "raised" /\ xExc' = "ExtractionError"
     ELSE xPc' = "extractall" /\ xExc' = xExc
  /\ UNCHANGED <<xArchive, xSaveAs, xTree, xUnpacked>>
  /\ UNCHANGED <<runVars, cfgVars>>

\* line 108: z.extractall(destination)
XExtractAll ==
  /\ xPc = "extractall"
  /\ IF xArchive.corrupt = "crc"
     THEN \E ms \in (SUBSET xArchive.members) \ {{}} :
            /\ xTree' = ExtractAll(xTree, xSaveAs, ms, xArchive.ver)
            /\ xPc' = "raised"
            /\ xExc' = "ExtractionError"
     ELSE /\ xTree' = ExtractAll(xTree, xSaveAs, xArchive.members, xArchive.ver)
          /\ xPc' = "flatten"
          /\ xExc' = xExc
  /\ xUnpacked' = xTree'
  /\ UNCHANGED <<xArchive, xSaveAs>>
  /\ UNCHANGED <<runVars, cfgVars>>

\* line 110: self.remove_intermediary_dir(destination)
XFlatten ==
  /\ xPc = "flatten"
  /\ \E r \in remove_intermediary_dir(xTree, xSaveAs) :
       /\ xTree' = r.tree
       /\ xExc' = r.exc
       /\ xPc' = IF r.exc = "none" THEN "prune" ELSE "raised"
  /\ UNCHANGED <<xArchive, xSaveAs, xUnpacked>>
  /\ UNCHANGED <<runVars, cfgVars>>

\* lines 111-113: self.remove_empty_dirs(destination); return destination
XPrune ==
  /\ xPc = "prune"
  /\ xTree' = remove_empty_dirs(xTree, xSaveAs)
  /\ xPc' = "returned"
  /\ UNCHANGED <<xArchive, xSaveAs, xUnpacked, xExc>>
  /\ UNCHANGED <<runVars, cfgVars>>

XNext == XOpen \/ XExtractAll \/ XFlatten \/ XPrune

SpecExtract == XInit /\ [][XNext]_vars

\* ------------------------------- Extractor.extract in the whole file system

\* StudipSync.__init__: extract_dir = <workdir>/extracted, and config.target
ExtractDir == <<"tmp", "w", "extracted">>

DestinationDir == <<"home", "target">>

\* how the system resolves ".." in a path
RECURSIVE Normal(_)
Normal(p) ==
  IF p = <<>> THEN <<>>
  ELSE LET r == Normal(SubSeq(p, 1, Len(p) - 1))
           l == p[Len(p)]
       IN IF l # ".." THEN Append(r, l)
          ELSE IF r = <<>> THEN <<>> ELSE SubSeq(r, 1, Len(r) - 1)

\* os.path.join(self.basedir, destination), line 107: an absolute second
\* argument is the result, the first is dropped
JoinPath(base, sa) == IF sa.abs THEN Normal(sa.parts) ELSE Normal(base \o sa.parts)

\* save_as of a course of the configuration: a name, a path that climbs out
\* with "..", an absolute path into the destination
SaveAsValues ==
  {[abs |-> FALSE, parts |-> <<"S1">>],
   [abs |-> FALSE, parts |-> <<"..">>],
   [abs |-> TRUE, parts |-> DestinationDir \o <<"S1">>]}

\* the file system when extract is called: the workspace with its two
\* directories, the destination with a file of the user's
FrameTree0 ==
  MakeDirs(MakeDirs(MakeDirs({}, ExtractDir), <<"tmp", "w", "zips">>), DestinationDir \o <<"S1">>)
    \cup {FileNode(DestinationDir \o <<"S1", "a">>, UserContent)}

FInit ==
  /\ xArchive \in ArchivesOf(MaxDepth, MaxMembers, {1})
  /\ xSaveAs \in {JoinPath(ExtractDir, sa) : sa \in SaveAsValues}
  /\ xTree = FrameTree0
  /\ xUnpacked = {}
  /\ xPc = "open"
  /\ xExc = "none"
  /\ courses = <<Course("c1", <<"S1">>)>>
  /\ dest = {}
  /\ RunInit
  /\ CfgOff

SpecFrame == FInit /\ [][XNext]_vars

\* ------------------------------------ runs whose courses share a name

\* config.courses with two descriptors that differ and have the same save_as
\* (two courses into one folder), or the same course_id (two parts of one
\* course into two folders); nothing in the program rules them out
SharedConfigs ==
  {<<Course("c1", <<"S1">>), Course("c2", <<"S1">>)>>,
   <<Course("c1", <<"S1">>), Course("c1", <<"S2">>)>>}

SharedInit ==
  /\ courses \in SharedConfigs
  /\ dest \in InitialDests
  /\ RunInit
  /\ xArchive = Archive({}, "none", 1)
  /\ xSaveAs = <<"S1">>
  /\ xTree = {}
  /\ xUnpacked = {}
  /\ xPc = "idle"
  /\ xExc = "none"
  /\ CfgOff

SpecShared == SharedInit /\ [][Next]_vars

\* ------------------------------------------- config.py: the process start

\* JSONConfig.__init__, which is not among the sources: it keeps the loaded
\* file in self.config and ends with self._check()
JSONConfigInit(args, config, user, pass) == Check(args, config, user, pass)

\* the program proper, reached only when the import of config has returned
AfterImport(e) == IF e = "none" THEN "ready" ELSE "raised"

CInit ==
  /\ cArgs \in Arguments
  /\ cConfig \in ConfigFiles
  /\ cUsername = None
  /\ cPassword = None
  /\ cPc = "import"
  /\ cExc = "none"
  /\ cOut = <<>>
  /\ cStatus = "none"
  /\ xArchive = Archive({}, "none", 1)
  /\ xSaveAs = <<"S1">>
  /\ xTree = {}
  /\ xUnpacked = {}
  /\ xPc = "idle"
  /\ xExc = "none"
  /\ courses = <<Course("c1", <<"S1">>)>>
  /\ dest = {}
  /\ RunInit

\* line 132: CONFIG = Config().  _check reads self.username only when a
\* destination is there, and self.password only when the username is; each
\* property prompts when the file has no value, and caches what it got.
ConfigInit ==
  /\ cPc = "import"
  /\ \E tu \in Typed, tp \in Typed :
       LET user == Credential(cUsername, cConfig, "login", tu)
           pass == Credential(cPassword, cConfig, "password", tp)
           e == JSONConfigInit(cArgs, cConfig, user, pass)
           askedUser == e # "ConfigError: Both target directories are missing"
           askedPass == askedUser /\ user # EOF /\ ~Falsy(user)
       IN /\ cExc' = e
          /\ cUsername' = IF askedUser /\ user # EOF THEN user ELSE cUsername
          /\ cPassword' = IF askedPass /\ pass # EOF THEN pass ELSE cPassword
          /\ cPc' = AfterImport(e)
  /\ UNCHANGED <<cArgs, cConfig, cOut, cStatus>>
  /\ UNCHANGED <<extVars, runVars>>

\* lines 133-136: a ConfigError is printed, then "Aborting...", and the
\* process exits with status 1; any other exception ends the process with
\* its traceback
ModuleExcept ==
  /\ cPc = "raised"
  /\ cOut' = IF IsConfigError(cExc) THEN <<cExc, "Aborting...">> ELSE <<"Traceback">>
  /\ cStatus' = "nonzero"
  /\ cPc' = "exited"
  /\ UNCHANGED <<cArgs, cConfig, cUsername, cPassword, cExc>>
  /\ UNCHANGED <<extVars, runVars>>

\* the import has returned: the run starts, with CONFIG as it is
StartRun ==
  /\ cPc = "ready"
  /\ cPc' = "started"
  /\ UNCHANGED <<cArgs, cConfig, cUsername, cPassword, cExc, cOut, cStatus>>
  /\ UNCHANGED <<extVars, runVars>>

CNext == ConfigInit \/ ModuleExcept \/ StartRun

SpecConfig == CInit /\ [][CNext]_vars

\* ------------------------------------------------------------------ claims

SaveAs(i) == courses[i].save_as

CourseIdx == 1..Len(courses)

\* C1: once a run has ended (returned or aborted, wherever it failed), its
\* scratch workspace directory no longer exists.
C1_WorkspaceRemoved == pc = "ended" => workdir # "exists"

\* C2: in a run in which login succeeded every course ends in one of the
\* terminal states staged, download_failed, extraction_failed, whatever
\* happened to the courses before it; and when the loop is over, what a
\* course left in staging and how its extraction ended are what extracting
\* its archive alone gives.
C2_FailureIsolation ==
  /\ (pc = "ended" /\ loginRes = "ok") => \A i \in CourseIdx : outcome[i] \in Terminal
  /\ pc = "merge" =>
       \A i \in CourseIdx : outcome[i] \in {"staged", "extraction_failed"} =>
         \E ar \in zips[courses[i].course_id] : \E r \in extract({}, SaveAs(i), ar) :
           /\ r.tree = Under(staging, SaveAs(i))
           /\ r.exc = IF outcome[i] = "staged" THEN "none" ELSE "ExtractionError"

\* C3: the merge is invoked at most once in a run, only when every course
\* has reached a terminal state, and exactly once in every run in which
\* login succeeded.
C3_MergeExactlyOnce ==
  /\ merges <= 1
  /\ merges = 1 => \A i \in CourseIdx : outcome[i] \in Terminal
  /\ (pc = "ended" /\ loginRes = "ok") => merges = 1

\* C4: when the merge starts, staging/<save_as> is non-empty only for a
\* course that was staged (downloaded and extracted); and the merge changes
\* nothing in the destination below the save_as of a course that failed.
C4_StagingInvariant ==
  /\ pc = "merge" => \A i \in CourseIdx : Below(staging, SaveAs(i)) # {} => outcome[i] = "staged"
  /\ (pc = "exit" /\ merges = 1) =>
       \A i \in CourseIdx : outcome[i] # "staged" => Under(dest, SaveAs(i)) = Under(dest0, SaveAs(i))

\* C5: a browser session that was created is released exactly once by the
\* time the run has ended, on every exit path, and never twice.
C5_SessionReleasedOnce ==
  /\ releases <= 1
  /\ (pc = "ended" /\ driver # "none") => releases = 1

C7_NonDestructive ==
  /\ (pc = "exit" /\ merges = 1 /\ rc = 0) =>
       \A n \in staging : \A m \in dest0 :
         (n.k = "file" /\ m.k = "file" /\ m.b = 0 /\ m.p = n.p /\ m.c # n.c) =>
           /\ DestNode(n.p, 0, "file", n.c) \in dest
           /\ DestNode(n.p, suffix, "file", m.c) \in dest
  /\ \A e \in everAt : \E m \in dest : m.k = "file" /\ m.p = e[1] /\ m.c = e[2]

\* C8: a merge of a staging tree identical to the one the previous merge
\* ran through with leaves the destination as it was (no backup, no
\* rewrite); and any merge leaves a destination file whose content equals
\* the staged file, and the backups of it, untouched.
C8_MergeIdempotent ==
  (pc = "exit" /\ merges = 1) =>
    /\ (prevRc = 0 /\ prevTree = staging) => dest = dest0
    /\ \A m \in dest0 :
         (m.b = 0 /\ m.k = "file" /\ \E n \in staging : n.k = "file" /\ n.p = m.p /\ n.c = m.c) =>
           {x \in dest : x.p = m.p} = {x \in dest0 : x.p = m.p}

\* a second merge of an identical, non-empty staging tree into a
\* destination in which the first merge made a backup
C8_Witness ==
  /\ pc = "exit" /\ merges = 1 /\ prevRc = 0 /\ prevTree = staging
  /\ \E n \in staging : n.k = "file"
  /\ \E m \in dest : m.b > 0

\* C9: when the unpacked subtree has exactly one top-level entry and it is
\* a directory D, extract ends normally with every file that was below D one
\* level up with its content, and with no wrapper staging/S/D (unless D held
\* an entry named D).
C9_FlatteningResult ==
  (xPc \in {"returned", "raised"} /\ xArchive.corrupt = "none" /\ Cardinality(ListDir(xUnpacked, xSaveAs)) = 1) =>
    LET d == CHOOSE x \in ListDir(xUnpacked, xSaveAs) : TRUE
        w == xSaveAs \o <<d>>
    IN IsDir(xUnpacked, w) =>
         /\ xExc = "none"
         /\ \A n \in Below(xUnpacked, w) : n.k = "file" =>
              FileNode(xSaveAs \o SubSeq(n.p, Len(w) + 1, Len(n.p)), n.c) \in xTree
         /\ d \notin ListDir(xUnpacked, w) => ~Exists(xTree, w)

\* C10: after extract has returned, no directory below staging/<save_as> is
\* empty.
C10_NoEmptyDirs ==
  xPc = "returned" => \A n \in Below(xTree, xSaveAs) : n.k = "dir" => ListDir(xTree, n.p) # {}

\* C11 as stated: no run starts with an empty destination, username or
\* password.  The destination of the course files is files_destination.
C11_NoRunWithEmptyField ==
  cPc = "started" =>
    /\ ~Falsy(files_destination(cArgs, cConfig))
    /\ ~Falsy(cUsername)
    /\ ~Falsy(cPassword)

\* C11, amended: a run starts only with at least one of the two destinations
\* and with a username and a password that are not empty; the import fails
\* with "Both target directories are missing" only when both destinations are
\* missing or empty; every failure of the import ends the process with a
\* non-zero status before the run, a ConfigError with its message and
\* "Aborting..." printed.
C11_ConfigCheck ==
  LET fd == files_destination(cArgs, cConfig)
      md == media_destination(cArgs, cConfig)
  IN /\ cPc \in {"ready", "started"} =>
          /\ ~Falsy(fd) \/ ~Falsy(md)
          /\ ~Falsy(cUsername) /\ cUsername # EOF
          /\ ~Falsy(cPassword) /\ cPassword # EOF
          /\ cExc = "none" /\ cStatus = "none" /\ cOut = <<>>
     /\ cExc = "ConfigError: Both target directories are missing" => Falsy(fd) /\ Falsy(md)
     /\ Falsy(fd) /\ Falsy(md) /\ cPc # "import" =>
          cExc = "ConfigError: Both target directories are missing"
     /\ cPc = "exited" =>
          /\ cStatus = "nonzero"
          /\ cExc # "none"
          /\ IsConfigError(cExc) => cOut = <<cExc, "Aborting...">>

C11_Witness ==
  /\ cPc = "exited"
  /\ cExc = "ConfigError: Password is missing"
  /\ Falsy(files_destination(cArgs, cConfig))
  /\ ~Falsy(media_destination(cArgs, cConfig))

\* the regular files of a tree
Files(t) == {n \in t : n.k = "file"}

\* C12: when the unpacked subtree has several top-level entries, or exactly
\* one that is a regular file, extract returns without raising and every
\* unpacked file is where it was unpacked.
C12_FlatteningCondition ==
  LET tops == ListDir(xUnpacked, xSaveAs)
      single == Cardinality(tops) = 1
      wrapped == \E d \in tops : IsDir(xUnpacked, xSaveAs \o <<d>>)
  IN (xPc \in {"returned", "raised"} /\ xArchive.corrupt = "none"
        /\ (Cardinality(tops) > 1 \/ (single /\ ~wrapped)))
       => /\ xPc = "returned"
          /\ xExc = "none"
          /\ Files(xTree) = Files(xUnpacked)

\* C13: a download that does not find the root folder id ends with
\* DownloadError and has issued no bulk request; one whose bulk response is
\* no success ends with DownloadError and has written nothing to
\* zips/<course_id>; a course is extracted only after its download returned.
C13_DownloadProtocol ==
  \A i \in CourseIdx :
    /\ fetched[i] = {} => outcome[i] = "pending" /\ requests[i] = {}
    /\ \A f \in fetched[i] :
         /\ f[1] = "no_folder" => "bulk" \notin requests[i]
         /\ f[1] \in {"no_folder", "not_ok"} =>
              /\ outcome[i] = "download_failed"
              /\ workdir = "exists" => zips[courses[i].course_id] = {}
         /\ f[1] # "ok" => outcome[i] \notin {"downloaded", "staged", "extraction_failed"}
    /\ (pc = "extract" /\ idx = i) \/ Under(staging, SaveAs(i)) # {} =>
         \E ar \in RemoteArchives :
           /\ fetched[i] = {<<"ok", ar>>}
           /\ zips[courses[i].course_id] = {ar}

C13_Witness ==
  /\ Len(courses) = 2
  /\ fetched[1] = {<<"no_folder", Truncated>>}
  /\ fetched[2] = {<<"not_ok", Truncated>>}
  /\ run = 2
  /\ pc = "merge"

\* the order the events of a run are to have
Rank(e) ==
  CASE e = "workspace_created" -> 1
    [] e = "session_opened" -> 2
    [] e = "course_loop" -> 3
    [] e = "session_closed" -> 4
    [] e = "merge" -> 5
    [] e = "workspace_removed" -> 6

Before(a, b) ==
  \A k \in 1..Len(events) : events[k] = b => \E j \in 1..(k - 1) : events[j] = a

\* C14: the events of a run happen in the order workspace created, session
\* opened, course loop, session closed, merge, workspace removed; no download
\* or extraction without an open session, no merge before the session is
\* closed, no removal of the workspace that was not created, and the
\* workspace is there while the loop and the merge run.
C14_OrchestratorOrder ==
  /\ \A j, k \in 1..Len(events) : j < k => Rank(events[j]) < Rank(events[k])
  /\ Before("workspace_created", "session_opened")
  /\ Before("session_opened", "course_loop")
  /\ Before("session_opened", "session_closed")
  /\ Before("session_closed", "merge")
  /\ Before("course_loop", "merge")
  /\ Before("workspace_created", "workspace_removed")
  /\ pc \in {"download", "extract"} => driver = "open" /\ workdir = "exists"
  /\ pc = "merge" => driver = "released" /\ workdir = "exists"
  /\ merges > 0 /\ pc = "exit" => workdir = "exists"

C14_Witness ==
  /\ Len(courses) = 2
  /\ events = <<"workspace_created", "session_opened", "course_loop", "session_closed", "merge", "workspace_removed">>
  /\ outcome = <<"download_failed", "staged">>
  /\ run = 2

\* C15: in a run where the download of course 1 fails and course 2 is
\* staged, the merge changes destination entries under the save_as of course
\* 2 only: every entry under the save_as of course 1, files and backups, is
\* as it was when the run started, so no backup of it has been written.
C15_FailedCourseFrame ==
  (Len(courses) = 2 /\ outcome = <<"download_failed", "staged">> /\ merges = 1) =>
    /\ \A m \in (dest \ dest0) \cup (dest0 \ dest) : IsPrefix(SaveAs(2), m.p)
    /\ Under(dest, SaveAs(1)) = Under(dest0, SaveAs(1))

C15_Witness ==
  /\ Len(courses) = 2
  /\ outcome = <<"download_failed", "staged">>
  /\ merges = 1
  /\ \E m \in dest0 : m.p = <<"S1", "a">> /\ m.b = 0 /\ m.c = UserContent
  /\ \E m \in dest \ dest0 : IsPrefix(SaveAs(2), m.p) /\ m.k = "file"

\* C16: the suffix of a run differs from the suffix of every earlier run, so
\* a backup that an earlier run wrote (one the destination held when this run
\* started) is not of this run's suffix and is still there, with its content,
\* after this run's merge.
C16_SuffixUnique ==
  \A m \in dest0 : m.b > 0 =>
    /\ suffix # 0 => m.b # suffix
    /\ m \in dest

\* C17: whatever save_as is, extract creates, changes and removes entries
\* under the staging directory only; the destination tree in particular is
\* as it was.
C17_ExtractionFrame ==
  \A n \in (xTree \ FrameTree0) \cup (FrameTree0 \ xTree) : IsPrefix(ExtractDir, n.p)

\* C18: the subtree staged for a course is what extracting its archive alone
\* into an empty staging directory gives, whichever other courses the run
\* has, as long as the workspace is there.
C18_CourseIndependence ==
  \A i \in CourseIdx :
    (outcome[i] = "staged" /\ workdir = "exists") =>
      \E f \in fetched[i] :
        /\ f[1] = "ok"
        /\ \E r \in extract({}, SaveAs(i), f[2]) :
             r.exc = "none" /\ Under(staging, SaveAs(i)) = r.tree

\* C19: a run that has merged ends the same way whether rsync exited with
\* zero or not: no exception, exit status zero, the workspace removed.
C19_MergeStatusDropped ==
  /\ (merges > 0 /\ pc \in {"exit", "ended"}) => exc = "none"
  /\ (merges > 0 /\ pc = "ended") => status = "zero" /\ workdir = "removed"

C19_Witness == merges = 1 /\ pc = "ended" /\ rc = 1 /\ status = "zero" /\ workdir = "removed"

====
